---- MODULE Spec2Model ----
(***************************************************************************)
(* A model of the Sudoku engine (src/engine.js): the puzzle generator     *)
(* as a state machine (fillBoard's recursion unrolled on an explicit call *)
(* stack, the removal loop one iteration per step) and the pure helpers   *)
(* (isValid, findEmpty, countSolutions, candidates, conflicts) as         *)
(* operators computed the way the code computes them; the recursion of    *)
(* countSolutions' solve is run step by step on an explicit call stack.   *)
(***************************************************************************)
EXTENDS Integers, Sequences, FiniteSets, TLC

(* ---------------------------------------------------------------------- *)
(* Bounds of the model                                                     *)
(* ---------------------------------------------------------------------- *)

\* Math.random is modelled as a pseudo-random stream; the generator is run
\* from the first NumSeeds seeds of Seeds.
NumSeeds == 2

\* The caller of the pure helpers changes at most MaxEdits cells of a start
\* grid before it calls one of them.
MaxEdits == 1

\* countSolutions is called with max in 0..MaxMax (0: the argument is absent).
MaxMax == 3

\* generateAsync is called at most MaxAsyncCalls times.
MaxAsyncCalls == 2

\* Game.seconds is counted up to MaxSeconds.
MaxSeconds == 2

\* Game.mistakes is counted up to MaxMistakes.
MaxMistakes == 2

\* The recorded actions (entries of Game.history) a run can have pending,
\* not yet undone.
MaxHistory == 2

(* ---------------------------------------------------------------------- *)
(* Grids                                                                   *)
(* ---------------------------------------------------------------------- *)

Idx == 0..8
Digits == 1..9
Cells == Idx \X Idx

\* Array.from({ length: 9 }, () => Array(9).fill(0))
ZeroBoard == [r \in Idx |-> [c \in Idx |-> 0]]

\* br = 3 * ((r / 3) | 0)
BoxStart(r) == 3 * (r \div 3)

\* The cells of a board that hold 0.
ZeroCells(board) == {p \in Cells : board[p[1]][p[2]] = 0}

(* ---------------------------------------------------------------------- *)
(* Math.random and shuffle                                                 *)
(* ---------------------------------------------------------------------- *)

\* The initial states of the random stream. Under the first the removal loop
\* runs out of positions before "expert" reaches its target, under the
\* others it does not.
Seeds == <<271, 100, 278, 172>>

\* One step of the pseudo-random stream behind Math.random().
NextRng(x) == (x * 25173 + 13849) % 65536

\* (Math.random() * k) | 0, with Math.random() = x / 65536 in [0,1).
RandInt(x, k) == (x * k) \div 65536

\* [a[i], a[j]] = [a[j], a[i]] on a 1-based sequence holding a 0-based array.
Swap(a, i, j) == [a EXCEPT ![i + 1] = a[j + 1], ![j + 1] = a[i + 1]]

\* One iteration of the loop of shuffle, st = [a, rng]:
\* j = (Math.random() * (i + 1)) | 0, then the swap.
ShuffleStep(st, i) ==
  LET x2 == NextRng(st.rng)
  IN [a |-> Swap(st.a, i, RandInt(x2, i + 1)), rng |-> x2]

\* The iterations i = hi, hi - 1, .., lo of "for (let i = a.length - 1;
\* i > 0; i--)", in that order (the upper half of the range, then the lower).
\* st.rng is never negative: the test has st evaluated before the range is
\* split.
RECURSIVE ShuffleLoop(_, _, _)
ShuffleLoop(st, hi, lo) ==
  IF hi < lo \/ st.rng < 0 THEN st
  ELSE IF hi = lo THEN ShuffleStep(st, hi)
  ELSE ShuffleLoop(ShuffleLoop(st, hi, (hi + lo) \div 2 + 1), (hi + lo) \div 2, lo)

\* shuffle(arr): a shuffled copy, and the state of the random stream after.
shuffle(arr, x) == ShuffleLoop([a |-> arr, rng |-> x], Len(arr) - 1, 1)

(* ---------------------------------------------------------------------- *)
(* isValid, findEmpty                                                      *)
(* ---------------------------------------------------------------------- *)

\* (the mutant leaves the 3x3 box check out)
isValid_noBox(board, r, c, n) ==
  \A i \in Idx : board[r][i] # n /\ board[i][c] # n

isValid(board, r, c, n) ==
  /\ \A i \in Idx : board[r][i] # n /\ board[i][c] # n
  /\ LET br == BoxStart(r)
         bc == BoxStart(c)
     IN \A dr \in 0..2 : \A dc \in 0..2 : board[br + dr][bc + dc] # n

\* (the mutant stops its scan one cell early)
findEmpty_short(board) ==
  LET E == {i \in 0..79 : board[i \div 9][i % 9] = 0}
  IN IF E = {} THEN <<>>
     ELSE LET i == CHOOSE i \in E : \A j \in E : i <= j
          IN <<i \div 9, i % 9>>

\* The first cell in row-major order that is 0, or <<>> for null.
findEmpty(board) ==
  IF \A r \in Idx : \A c \in Idx : board[r][c] # 0 THEN <<>>
  ELSE LET r == CHOOSE r \in Idx :
                  /\ \E c \in Idx : board[r][c] = 0
                  /\ \A q \in 0..(r - 1) : \A c \in Idx : board[q][c] # 0
           c == CHOOSE c \in Idx :
                  /\ board[r][c] = 0
                  /\ \A d \in 0..(c - 1) : board[r][d] # 0
       IN <<r, c>>

(* ---------------------------------------------------------------------- *)
(* countSolutions                                                          *)
(* ---------------------------------------------------------------------- *)

\* max = max || 2 (an absent argument and 0 are both falsy).
\* (the mutant's default is 1)
MaxOrDefault_one(max) == IF max = 0 THEN 1 ELSE max
MaxOrDefault(max) == IF max = 0 THEN 2 ELSE max

\* The first digit m >= n of the loop "for (let n = 1; n <= 9; n++)" that
\* passes isValid, or 0 when the loop runs out.
NextValid(copy, r, c, n) ==
  LET V == {m \in n..9 : isValid(copy, r, c, m)}
  IN IF V = {} THEN 0 ELSE CHOOSE m \in V : \A k \in V : m <= k

\* solve() is run as a machine on an explicit call stack.  st.count and
\* st.copy are the closure's variables; st.stack holds one frame [r, c, n]
\* for each call of solve that is inside its loop (n: the digit it has
\* placed, 0 before the first); st.pc is the position: "call" (a call of
\* solve starts), "loop" (the loop of the top frame looks for its next
\* digit), "ret" (a call has returned to the top frame), "done" (the
\* outermost call has returned).
solveStart(board) == [count |-> 0, copy |-> board, stack |-> <<>>, pc |-> "call"]

solveStep(st, max) ==
  LET d   == Len(st.stack)
      top == st.stack[d]
  IN CASE st.pc = "call" ->
            IF st.count >= max THEN [st EXCEPT !.pc = "ret"]
            ELSE LET empty == findEmpty(st.copy)
                 IN IF empty = <<>>
                    THEN [st EXCEPT !.count = st.count + 1, !.pc = "ret"]
                    ELSE [st EXCEPT
                            !.stack = Append(st.stack,
                                        [r |-> empty[1], c |-> empty[2], n |-> 0]),
                            !.pc = "loop"]
       [] st.pc = "loop" ->
            LET m == NextValid(st.copy, top.r, top.c, top.n + 1)
            IN IF m = 0
               THEN [st EXCEPT !.stack = SubSeq(st.stack, 1, d - 1), !.pc = "ret"]
               ELSE [st EXCEPT !.copy[top.r][top.c] = m,
                               !.stack[d].n = m,
                               !.pc = "call"]
       [] st.pc = "ret" ->
            IF d = 0 THEN [st EXCEPT !.pc = "done"]
            ELSE IF st.count >= max                        \* early exit
                 THEN [st EXCEPT !.stack = SubSeq(st.stack, 1, d - 1)]
                 ELSE [st EXCEPT !.copy[top.r][top.c] = 0, !.pc = "loop"]
       [] OTHER -> st

\* 2^k steps of the machine, or fewer when it is done before.
RECURSIVE solveSteps(_, _, _)
solveSteps(st, max, k) ==
  IF st.pc = "done" THEN st
  ELSE IF k = 0 THEN solveStep(st, max)
  ELSE solveSteps(solveSteps(st, max, k - 1), max, k - 1)

\* The machine run until the outermost call has returned.
RECURSIVE solveRun(_, _, _)
solveRun(st, max, k) ==
  IF st.pc = "done" THEN st
  ELSE solveRun(solveSteps(st, max, k), max, k + 1)

solve(board, max) == solveRun(solveStart(board), max, 0)

\* const copy = board.map(row => [...row]): does copy share its rows with
\* the caller's board?  (the mutant copies the outer array only)
CopySharesRows_shallow == TRUE
CopySharesRows == FALSE

\* One call of countSolutions: the count returned, the scratch copy as the
\* call leaves it, and the caller's board as the call leaves it.
countSolutionsRun(board, max) ==
  LET st == solve(board, MaxOrDefault(max))
  IN [count |-> st.count,
      copy  |-> st.copy,
      board |-> IF CopySharesRows THEN st.copy ELSE board]

countSolutions(board, max) == countSolutionsRun(board, max).count

(* ---------------------------------------------------------------------- *)
(* candidates, conflicts                                                   *)
(* ---------------------------------------------------------------------- *)

\* The values the two delete loops of candidates remove.
RowColValues(board, r, c) == {board[r][i] : i \in Idx} \cup {board[i][c] : i \in Idx}
BoxValues(board, r, c) ==
  {board[BoxStart(r) + dr][BoxStart(c) + dc] : dr \in 0..2, dc \in 0..2}

\* (the mutant leaves the box loop out)
candidates_noBox(board, r, c) ==
  IF board[r][c] # 0 THEN {} ELSE Digits \ RowColValues(board, r, c)

candidates(board, r, c) ==
  IF board[r][c] # 0 THEN {}
  ELSE (Digits \ RowColValues(board, r, c)) \ BoxValues(board, r, c)

\* The cells conflicts looks at, in the order it looks at them: for i = 0..8
\* the row cell [r, i] and the column cell [i, c], then the box row by row.
RowColProbes(r, c) ==
  [k \in 1..18 |-> IF k % 2 = 1 THEN <<r, (k - 1) \div 2>> ELSE <<(k - 2) \div 2, c>>]
BoxProbes(r, c) ==
  [k \in 1..9 |-> <<BoxStart(r) + ((k - 1) \div 3), BoxStart(c) + ((k - 1) % 3)>>]

\* (the mutant's box loop does not skip the cell (r, c) itself)
conflicts_boxSelf(board, r, c, val) ==
  LET Hit(p) == p # <<r, c>> /\ board[p[1]][p[2]] = val
      HitAny(p) == board[p[1]][p[2]] = val
  IN SelectSeq(RowColProbes(r, c), Hit) \o SelectSeq(BoxProbes(r, c), HitAny)

\* conflicts(board, r, c, val): the list it pushes, in push order. Each of
\* the three tests skips the cell (r, c) itself (i !== c, i !== r,
\* !(pr === r && pc === c)).
conflicts(board, r, c, val) ==
  LET Hit(p) == p # <<r, c>> /\ board[p[1]][p[2]] = val
  IN SelectSeq(RowColProbes(r, c), Hit) \o SelectSeq(BoxProbes(r, c), Hit)

(* ---------------------------------------------------------------------- *)
(* findMove (src/hints.js)                                                 *)
(* ---------------------------------------------------------------------- *)

\* The properties of the object the Engine module returns.
EngineApi == {"generate", "generateAsync", "candidates", "conflicts"}

\* const box = Engine.boxOrigin: a function only when Engine has the property,
\* undefined otherwise, and calling undefined throws a TypeError.
BoxIsFunction == "boxOrigin" \in EngineApi

\* box(r), were Engine.boxOrigin a function: the first row (column) of the
\* 3x3 box of row (column) r.
box(r) == BoxStart(r)

\* What findMove and its three techniques return or throw. peers and unit
\* are the lists highlight.peers and highlight.unit, in push order.
Null ==
  [kind |-> "null", technique |-> "", row |-> 0, col |-> 0, value |-> 0,
   peers |-> <<>>, unit |-> <<>>]
TypeError ==
  [kind |-> "TypeError", technique |-> "", row |-> 0, col |-> 0, value |-> 0,
   peers |-> <<>>, unit |-> <<>>]
Hint(t, r, c, v, ps, u) ==
  [kind |-> "hint", technique |-> t, row |-> r, col |-> c, value |-> v,
   peers |-> ps, unit |-> u]

\* arr.filter(([pr,pc]) => board[pr][pc])
Filled(board, cells) ==
  LET Test(p) == board[p[1]][p[2]] # 0
  IN SelectSeq(cells, Test)

\* buildPeers(r, c): the lists row, col and box, the cell (r, c) left out of
\* each.
buildPeers(r, c) ==
  LET NotSelf(p) == p # <<r, c>>
  IN [row |-> SelectSeq([k \in 1..9 |-> <<r, k - 1>>], NotSelf),
      col |-> SelectSeq([k \in 1..9 |-> <<k - 1, c>>], NotSelf),
      box |-> SelectSeq([k \in 1..9 |-> <<box(r) + ((k - 1) \div 3), box(c) + ((k - 1) % 3)>>],
                        NotSelf)]

\* blocking.filter: an entry is kept when its key pr*9+pc was not seen before.
Deduplicate(list) ==
  LET Keep == {i \in DOMAIN list : \A j \in 1..(i - 1) : list[j] # list[i]}
  IN [k \in 1..Cardinality(Keep) |->
        list[CHOOSE i \in Keep : Cardinality({j \in Keep : j < i}) = k - 1]]

\* The first cell of a non-empty set of cells in row-major order.
FirstCell(S) == CHOOSE p \in S : \A q \in S : p[1] * 9 + p[2] <= q[1] * 9 + q[2]

findNakedSingle(board) ==
  LET S == {p \in Cells : Cardinality(candidates(board, p[1], p[2])) = 1}
  IN IF S = {} THEN Null
     ELSE IF ~BoxIsFunction THEN TypeError               \* box(r), line 74
     ELSE LET p == FirstCell(S)
              peers == buildPeers(p[1], p[2])
          IN Hint("Naked Single", p[1], p[2],
                  CHOOSE v \in candidates(board, p[1], p[2]) : TRUE,
                  Deduplicate(Filled(board, peers.row) \o Filled(board, peers.col)
                                \o Filled(board, peers.box)),
                  peers.row \o peers.col \o peers.box)

\* unitCells(type, idx), for the k-th of the 27 units: rows, columns, boxes.
UnitType(k) == IF k < 9 THEN "Row" ELSE IF k < 18 THEN "Col" ELSE "Box"
unitCells(k) ==
  LET idx == k % 9
  IN IF k < 9 THEN [i \in 1..9 |-> <<idx, i - 1>>]
     ELSE IF k < 18 THEN [i \in 1..9 |-> <<i - 1, idx>>]
     ELSE [i \in 1..9 |->
             <<(3 * (idx \div 3)) + ((i - 1) \div 3), (3 * (idx % 3)) + ((i - 1) % 3)>>]

\* The cells of unit k that digit n fits: cells.filter(gc(board,r,c).has(n)).
Fits(board, k, n) ==
  LET Test(p) == n \in candidates(board, p[1], p[2])
  IN SelectSeq(unitCells(k), Test)

\* The (unit, digit) pairs the two loops do not skip: the digit is in no cell
\* of the unit and fits exactly one cell of it.
\* (the mutant's test is fits.length < 1: it takes a digit that fits several
\* cells)
HiddenPairs_severalFit(board) ==
  {kn \in (0..26) \X Digits :
     /\ \A i \in 1..9 : board[unitCells(kn[1])[i][1]][unitCells(kn[1])[i][2]] # kn[2]
     /\ Len(Fits(board, kn[1], kn[2])) >= 1}
HiddenPairs(board) ==
  {kn \in (0..26) \X Digits :
     /\ \A i \in 1..9 : board[unitCells(kn[1])[i][1]][unitCells(kn[1])[i][2]] # kn[2]
     /\ Len(Fits(board, kn[1], kn[2])) = 1}

\* The pair the loops reach first: units in order, digits 1..9 within a unit.
\* (the mutant's inner loop runs from 9 down to 1)
FirstPair_digitsDown(P) == CHOOSE x \in P : \A y \in P : x[1] * 9 - x[2] <= y[1] * 9 - y[2]
FirstPair(P) == CHOOSE x \in P : \A y \in P : x[1] * 9 + x[2] <= y[1] * 9 + y[2]

findHiddenSingle(board) ==
  LET P == HiddenPairs(board)
  IN IF P = {} THEN Null
     ELSE LET kn == FirstPair(P)
              p == Fits(board, kn[1], kn[2])[1]
              NotTarget(q) == q # p
          IN Hint("Hidden Single (" \o UnitType(kn[1]) \o ")", p[1], p[2], kn[2],
                  SelectSeq(Filled(board, unitCells(kn[1])), NotTarget),
                  unitCells(kn[1]))

\* (the mutant does not skip the cells that hold a digit)
fallback_noSkip(board, sol) ==
  IF ~BoxIsFunction THEN TypeError
  ELSE LET peers == buildPeers(0, 0)
       IN Hint("Advanced Technique", 0, 0, sol[0][0], <<>>,
               peers.row \o peers.col \o peers.box)

fallback(board, sol) ==
  LET e == findEmpty(board)
  IN IF e = <<>> THEN Null
     ELSE IF ~BoxIsFunction THEN TypeError               \* buildPeers, line 37
     ELSE LET peers == buildPeers(e[1], e[2])
          IN Hint("Advanced Technique", e[1], e[2], sol[e[1]][e[2]], <<>>,
                  peers.row \o peers.col \o peers.box)

\* findNakedSingle(board) || findHiddenSingle(board) || fallback(board, solution)
findMove(board, sol) ==
  LET a == findNakedSingle(board)
  IN IF a # Null THEN a
     ELSE LET b == findHiddenSingle(board)
          IN IF b # Null THEN b ELSE fallback(board, sol)

(* ---------------------------------------------------------------------- *)
(* generate                                                                *)
(* ---------------------------------------------------------------------- *)

\* The own properties of REMOVALS.
REMOVALS == [beginner |-> 30, easy |-> 38, medium |-> 46, hard |-> 52, expert |-> 56]

\* Properties every object literal inherits from Object.prototype.
ObjectPrototypeKeys == {"constructor"}

\* The difficulty names generate is called with: the five of the table, a
\* name that is no property at all, and an inherited property name.
DifficultyNames == DOMAIN REMOVALS \cup {"impossible"} \cup ObjectPrototypeKeys

\* REMOVALS[difficulty]: a number, a function (inherited), or undefined.
RemovalsLookup(difficulty) ==
  IF difficulty \in DOMAIN REMOVALS
    THEN [kind |-> "number", n |-> REMOVALS[difficulty]]
  ELSE IF difficulty \in ObjectPrototypeKeys
    THEN [kind |-> "function", n |-> 0]
  ELSE [kind |-> "undefined", n |-> 0]

\* Truthiness of a looked-up value.
Truthy(v) == v.kind = "function" \/ (v.kind = "number" /\ v.n # 0)

\* REMOVALS[difficulty] || REMOVALS.easy
TargetOf(difficulty) ==
  LET v == RemovalsLookup(difficulty)
  IN IF Truthy(v) THEN v ELSE [kind |-> "number", n |-> REMOVALS.easy]

\* removed >= target: a function converts to NaN, and every comparison
\* with NaN is false.  (the mutant stops one removal late)
ReachedTarget_late(rem, tgt) == tgt.kind = "number" /\ rem > tgt.n
ReachedTarget(removed, target) == target.kind = "number" /\ removed >= target.n

\* if (countSolutions(puzzle) === 1): is the removal kept?  (the mutant
\* keeps every removal that leaves the puzzle solvable)
KeepRemoval_solvable(count) == count >= 1
KeepRemoval(count) == count = 1

\* Array.from({ length: 81 }, (_, i) => [(i / 9) | 0, i % 9])
AllPositions == [i \in 1..81 |-> <<(i - 1) \div 9, (i - 1) % 9>>]

VARIABLES
  pc,          \* where generate is: "idle", "fillCall", "fillLoop", "fillRet", "remove", "done"
  rng,         \* state of the random stream
  difficulty,  \* the argument of generate
  board,       \* the grid fillBoard works on
  stack,       \* fillBoard's pending calls: [r, c, order, k]
  ret,         \* the value the last fillBoard call returned
  fillResult,  \* what the outermost fillBoard call returned ("none" before)
  backtracks,  \* how often fillBoard has reset a cell to 0 (line 113)
  solution, puzzle, target, removed, positions, pos,
  \* a caller of the pure helpers
  grid,        \* the caller's grid
  edits,       \* how many cells the caller has changed
  op,          \* the last call: [name, r, c, v], name "none" before any call
  entry,       \* the caller's grid when that call was made
  result,      \* what that call returned
  \* the event loop and generateAsync
  task,        \* what the thread runs: "none", "caller" (a task of the page), "timer"
  calls,       \* how many generateAsync calls have been made (they are numbered 1, 2, ..)
  timers,      \* the pending setTimeout(.., 0) timers, oldest first: [id, difficulty]
  current,     \* the id of the call whose timer is running (0: none)
  delivered,   \* the callback invocations so far: [id, difficulty, puzzle, solution]
  \* the page (src/game.js)
  Game,        \* the object Game
  intervals,   \* the handles of the active setInterval timers
  timeouts,    \* the pending wrong-placement timeouts: [id, row, col, n, savedNotes, game]
  games,       \* how many newGame callbacks have run (0: Game.board is still null)
  trail        \* the board and notes before each recorded action not yet undone

genVars == <<pc, rng, difficulty, board, stack, ret, fillResult, backtracks,
             solution, puzzle, target, removed, positions, pos>>
callVars == <<grid, edits, op, entry, result>>
asyncVars == <<task, calls, timers, current, delivered>>
gameVars == <<Game, intervals, timeouts, games, trail>>
vars == <<genVars, callVars, asyncVars, gameVars>>

NoOp == [name |-> "none", r |-> 0, c |-> 0, v |-> 0]

\* No helper is being called.
CallIdle ==
  /\ grid = ZeroBoard
  /\ edits = 0
  /\ op = NoOp
  /\ entry = ZeroBoard
  /\ result = 0

\* generateAsync has not been called and no task is running.
AsyncIdle ==
  /\ task = "none"
  /\ calls = 0
  /\ timers = <<>>
  /\ current = 0
  /\ delivered = <<>>

\* Where a field of Game is null: a cell (selected), a timer handle.
NoCell == <<>>
NoTimer == 0
EmptyNotes == [r \in Idx |-> [c \in Idx |-> {}]]

\* The object literal Game, lines 17-25. puzzle, solution, board and notes
\* are null until the first newGame callback (games = 0); hint is null.
GameLiteral ==
  [puzzle |-> ZeroBoard, solution |-> ZeroBoard, board |-> ZeroBoard, notes |-> EmptyNotes,
   selected |-> NoCell, noteMode |-> FALSE, paused |-> FALSE, difficulty |-> "easy",
   mistakes |-> 0, score |-> 0, seconds |-> 0, streak |-> 0,
   hint |-> Null,
   history |-> <<>>, timer |-> NoTimer, wrongTimer |-> NoTimer, done |-> FALSE]

\* The page has not been loaded.
GameIdle ==
  /\ Game = GameLiteral
  /\ intervals = {}
  /\ timeouts = {}
  /\ games = 0
  /\ trail = <<>>

\* generate has not been called.
GenIdle(seed) ==
  /\ pc = "idle"
  /\ rng = seed
  /\ difficulty = ""
  /\ board = ZeroBoard
  /\ stack = <<>>
  /\ ret = FALSE
  /\ fillResult = "none"
  /\ backtracks = 0
  /\ solution = ZeroBoard
  /\ puzzle = ZeroBoard
  /\ target = [kind |-> "undefined", n |-> 0]
  /\ removed = 0
  /\ positions = <<>>
  /\ pos = 1

Init == (\E i \in 1..NumSeeds : GenIdle(Seeds[i])) /\ CallIdle /\ AsyncIdle /\ GameIdle

\* generate(difficulty), line 191-192: a fresh all-zero board, fillBoard(board).
Generate(d) ==
  /\ pc = "idle"
  /\ difficulty' = d
  /\ board' = ZeroBoard
  /\ pc' = "fillCall"
  /\ UNCHANGED <<rng, stack, ret, fillResult, backtracks, solution, puzzle, target, removed, positions, pos, callVars, asyncVars, gameVars>>

\* fillBoard(board), on entry: findEmpty, return true when full, else
\* shuffle the digits and enter the loop.
FillCall ==
  /\ pc = "fillCall"
  /\ LET empty == findEmpty(board)
     IN IF empty = <<>>
        THEN /\ ret' = TRUE
             /\ pc' = "fillRet"
             /\ UNCHANGED <<rng, stack>>
        ELSE LET sh == shuffle(<<1, 2, 3, 4, 5, 6, 7, 8, 9>>, rng)
             IN /\ stack' = Append(stack, [r |-> empty[1], c |-> empty[2], order |-> sh.a, k |-> 1])
                /\ rng' = sh.rng
                /\ pc' = "fillLoop"
                /\ UNCHANGED ret
  /\ UNCHANGED <<difficulty, board, fillResult, backtracks, solution, puzzle, target, removed, positions, pos, callVars, asyncVars, gameVars>>

\* One iteration of "for (const n of shuffle(...))" in the innermost call.
FillLoop ==
  /\ pc = "fillLoop"
  /\ LET d == Len(stack)
         f == stack[d]
     IN IF f.k > 9
        THEN \* loop over: return false
             /\ stack' = SubSeq(stack, 1, d - 1)
             /\ ret' = FALSE
             /\ pc' = "fillRet"
             /\ UNCHANGED board
        ELSE IF isValid(board, f.r, f.c, f.order[f.k])
        THEN \* board[r][c] = n; fillBoard(board)
             /\ board' = [board EXCEPT ![f.r][f.c] = f.order[f.k]]
             /\ pc' = "fillCall"
             /\ UNCHANGED <<stack, ret>>
        ELSE /\ stack' = [stack EXCEPT ![d].k = f.k + 1]
             /\ UNCHANGED <<board, ret, pc>>
  /\ UNCHANGED <<rng, difficulty, fillResult, backtracks, solution, puzzle, target, removed, positions, pos, callVars, asyncVars, gameVars>>

\* (the mutant does not reset the cell when it backtracks)
FillRet_noReset ==
  /\ pc = "fillRet"
  /\ stack # <<>>
  /\ LET d == Len(stack)
         f == stack[d]
     IN IF ret
        THEN /\ stack' = SubSeq(stack, 1, d - 1)
             /\ UNCHANGED <<board, pc, backtracks>>
        ELSE /\ backtracks' = backtracks + 1
             /\ stack' = [stack EXCEPT ![d].k = f.k + 1]
             /\ pc' = "fillLoop"
             /\ UNCHANGED board
  /\ UNCHANGED <<rng, difficulty, ret, fillResult, solution, puzzle, target, removed, positions, pos, callVars, asyncVars, gameVars>>

\* A fillBoard call has returned ret to its caller: the loop of the calling
\* fillBoard (return true, or backtrack), or generate.
FillRet ==
  /\ pc = "fillRet"
  /\ stack # <<>>
  /\ LET d == Len(stack)
         f == stack[d]
     IN IF ret
        THEN \* if (fillBoard(board)) return true
             /\ stack' = SubSeq(stack, 1, d - 1)
             /\ UNCHANGED <<board, pc, backtracks>>
        ELSE \* board[r][c] = 0, next digit
             /\ board' = [board EXCEPT ![f.r][f.c] = 0]
             /\ backtracks' = backtracks + 1
             /\ stack' = [stack EXCEPT ![d].k = f.k + 1]
             /\ pc' = "fillLoop"
  /\ UNCHANGED <<rng, difficulty, ret, fillResult, solution, puzzle, target, removed, positions, pos, callVars, asyncVars, gameVars>>

\* generate, lines 193-203: fillBoard has returned; clone the board twice,
\* look the target up and shuffle the 81 positions.
AfterFill ==
  /\ pc = "fillRet"
  /\ stack = <<>>
  /\ fillResult' = IF ret THEN "true" ELSE "false"
  /\ solution' = board
  /\ puzzle' = board
  /\ target' = TargetOf(difficulty)
  /\ removed' = 0
  /\ LET sh == shuffle(AllPositions, rng)
     IN positions' = sh.a /\ rng' = sh.rng
  /\ pos' = 1
  /\ pc' = "remove"
  /\ UNCHANGED <<difficulty, board, stack, ret, backtracks, callVars, asyncVars, gameVars>>

\* One iteration of the removal loop, lines 205-216, or its end.
\* (the mutant leaves a rejected cell zeroed: line 214 is missing)
RemoveStep_noRestore ==
  /\ pc = "remove"
  /\ IF pos > Len(positions) \/ ReachedTarget(removed, target)
     THEN /\ pc' = "done"
          /\ UNCHANGED <<puzzle, removed, pos>>
     ELSE LET r == positions[pos][1]
              c == positions[pos][2]
              zeroed == [puzzle EXCEPT ![r][c] = 0]
              run == countSolutionsRun(zeroed, 0)
          IN /\ IF KeepRemoval(run.count)
                THEN puzzle' = run.board /\ removed' = removed + 1
                ELSE puzzle' = run.board /\ UNCHANGED removed
             /\ pos' = pos + 1
             /\ UNCHANGED pc
  /\ UNCHANGED <<rng, difficulty, board, stack, ret, fillResult, backtracks, solution, target, positions, callVars, asyncVars, gameVars>>
RemoveStep ==
  /\ pc = "remove"
  /\ IF pos > Len(positions) \/ ReachedTarget(removed, target)
     THEN /\ pc' = "done"
          /\ UNCHANGED <<puzzle, removed, pos>>
     ELSE LET r == positions[pos][1]
              c == positions[pos][2]
              saved == puzzle[r][c]
              zeroed == [puzzle EXCEPT ![r][c] = 0]
              run == countSolutionsRun(zeroed, 0)
          IN /\ IF KeepRemoval(run.count)
                THEN puzzle' = run.board /\ removed' = removed + 1
                ELSE puzzle' = [run.board EXCEPT ![r][c] = saved] /\ UNCHANGED removed
             /\ pos' = pos + 1
             /\ UNCHANGED pc
  /\ UNCHANGED <<rng, difficulty, board, stack, ret, fillResult, backtracks, solution, target, positions, callVars, asyncVars, gameVars>>

Next ==
  \/ \E d \in DifficultyNames : Generate(d)
  \/ FillCall
  \/ FillLoop
  \/ FillRet
  \/ AfterFill
  \/ RemoveStep

Spec == Init /\ [][Next]_vars

(* ---------------------------------------------------------------------- *)
(* generateAsync and the event loop (specification SpecAsync)              *)
(* ---------------------------------------------------------------------- *)

\* The difficulty names the page passes to generateAsync.
AsyncDifficulties == {"beginner", "easy"}

\* A task of the page (a click handler, the start-up code) begins.
TaskStarts ==
  /\ task = "none"
  /\ calls < MaxAsyncCalls
  /\ task' = "caller"
  /\ UNCHANGED <<calls, timers, current, delivered, genVars, callVars, gameVars>>

\* generateAsync(difficulty, callback): setTimeout(.., 0) registers a timer
\* and the call returns; the running task goes on.
GenerateAsync(d) ==
  /\ task = "caller"
  /\ calls < MaxAsyncCalls
  /\ calls' = calls + 1
  /\ timers' = Append(timers, [id |-> calls + 1, difficulty |-> d])
  /\ UNCHANGED <<task, current, delivered, genVars, callVars, gameVars>>

\* The running task of the page ends: the thread is back in the event loop.
TaskEnds ==
  /\ task = "caller"
  /\ task' = "none"
  /\ UNCHANGED <<calls, timers, current, delivered, genVars, callVars, gameVars>>

\* The timer the event loop runs next: of timers with equal delay, the one
\* registered first.
\* (the mutant's event loop runs the timer registered last)
NextTimer_last(q) == Len(q)
NextTimer(q) == 1

\* The event loop runs a due timer when no task is running: the arrow
\* function starts generate(difficulty).
TimerFires ==
  /\ task = "none"
  /\ timers # <<>>
  /\ pc = "idle"
  /\ LET i == NextTimer(timers)
     IN /\ current' = timers[i].id
        /\ difficulty' = timers[i].difficulty
        /\ timers' = SubSeq(timers, 1, i - 1) \o SubSeq(timers, i + 1, Len(timers))
  /\ task' = "timer"
  /\ board' = ZeroBoard
  /\ pc' = "fillCall"
  /\ UNCHANGED <<calls, delivered, rng, stack, ret, fillResult, backtracks, solution, puzzle, target, removed, positions, pos, callVars, gameVars>>

\* generate has returned { puzzle, solution }: the arrow function passes it
\* to callback, and the timer's task ends.
Deliver ==
  /\ task = "timer"
  /\ pc = "done"
  /\ delivered' = Append(delivered, [id |-> current, difficulty |-> difficulty,
                                     puzzle |-> puzzle, solution |-> solution])
  /\ task' = "none"
  /\ current' = 0
  /\ pc' = "idle"
  /\ difficulty' = ""
  /\ board' = ZeroBoard
  /\ stack' = <<>>
  /\ ret' = FALSE
  /\ fillResult' = "none"
  /\ backtracks' = 0
  /\ solution' = ZeroBoard
  /\ puzzle' = ZeroBoard
  /\ target' = [kind |-> "undefined", n |-> 0]
  /\ removed' = 0
  /\ positions' = <<>>
  /\ pos' = 1
  /\ UNCHANGED <<rng, calls, timers, callVars, gameVars>>

InitAsync == GenIdle(Seeds[1]) /\ CallIdle /\ AsyncIdle /\ GameIdle

NextAsync ==
  \/ TaskStarts
  \/ \E d \in AsyncDifficulties : GenerateAsync(d)
  \/ TaskEnds
  \/ TimerFires
  \/ FillCall
  \/ FillLoop
  \/ FillRet
  \/ AfterFill
  \/ RemoveStep
  \/ Deliver

SpecAsync == InitAsync /\ [][NextAsync]_vars

(* ---------------------------------------------------------------------- *)
(* A caller of the pure helpers (specification SpecEngine)                 *)
(* ---------------------------------------------------------------------- *)

Grid(rows) == [r \in Idx |-> [c \in Idx |-> rows[r + 1][c + 1]]]

\* A complete legal grid (the one fillBoard builds from the second seed).
SolvedGrid == Grid(<<
  <<3, 8, 1, 9, 6, 7, 4, 5, 2>>,
  <<5, 4, 6, 1, 2, 3, 8, 9, 7>>,
  <<7, 2, 9, 8, 4, 5, 3, 6, 1>>,
  <<9, 7, 4, 3, 8, 2, 6, 1, 5>>,
  <<6, 5, 3, 7, 9, 1, 2, 8, 4>>,
  <<8, 1, 2, 4, 5, 6, 9, 7, 3>>,
  <<1, 3, 8, 2, 7, 9, 5, 4, 6>>,
  <<2, 9, 5, 6, 1, 4, 7, 3, 8>>,
  <<4, 6, 7, 5, 3, 8, 1, 2, 9>> >>)

\* Two rectangles of SolvedGrid whose digits can be swapped: 4/5 in rows 0
\* and 6, 4/2 in rows 0 and 4. Both lie in columns 6..8, so that (0,6),
\* (0,7) and (0,8) share a row and a box.
RectA == {<<0, 6>>, <<0, 7>>, <<6, 6>>, <<6, 7>>}
RectB == {<<0, 6>>, <<0, 8>>, <<4, 6>>, <<4, 8>>}

\* The cells of row 0 and of column 6 that hold 9. Without them and without
\* RectA, the row and the column of (0,6) both lack 9 and its box holds 9.
CrossCells == {<<0, 3>>, <<5, 6>>}

Blanked(g, Z) == [r \in Idx |-> [c \in Idx |-> IF <<r, c>> \in Z THEN 0 ELSE g[r][c]]]

\* The grids a caller starts from: complete, one completion short of
\* unique (2 completions), 3 completions, and one in which a cell's box
\* excludes a digit that its row and column do not.
StartGrids ==
  {SolvedGrid,
   Blanked(SolvedGrid, RectA),
   Blanked(SolvedGrid, RectA \cup RectB),
   Blanked(SolvedGrid, RectA \cup CrossCells)}

\* The cells the caller changes and the values it writes there (a wrong
\* value included).
EditCells == RectA
EditValues == {0, 4, 5}

InitEngine ==
  /\ GenIdle(Seeds[1])
  /\ grid \in StartGrids
  /\ edits = 0
  /\ op = NoOp
  /\ entry = ZeroBoard
  /\ result = 0
  /\ AsyncIdle
  /\ GameIdle

\* The caller writes a value into a cell of its grid.
SetCell(p, v) ==
  /\ op.name = "none"
  /\ edits < MaxEdits
  /\ grid[p[1]][p[2]] # v
  /\ grid' = [grid EXCEPT ![p[1]][p[2]] = v]
  /\ edits' = edits + 1
  /\ UNCHANGED <<op, entry, result, genVars, asyncVars, gameVars>>

\* The helpers below only read the board they are given: their code holds
\* no assignment to it.
CallCandidates(r, c) ==
  /\ op.name = "none"
  /\ op' = [name |-> "candidates", r |-> r, c |-> c, v |-> 0]
  /\ entry' = grid
  /\ result' = candidates(grid, r, c)
  /\ UNCHANGED <<grid, edits, genVars, asyncVars, gameVars>>

CallConflicts(r, c, v) ==
  /\ op.name = "none"
  /\ op' = [name |-> "conflicts", r |-> r, c |-> c, v |-> v]
  /\ entry' = grid
  /\ result' = conflicts(grid, r, c, v)
  /\ UNCHANGED <<grid, edits, genVars, asyncVars, gameVars>>

CallIsValid(r, c, n) ==
  /\ op.name = "none"
  /\ op' = [name |-> "isValid", r |-> r, c |-> c, v |-> n]
  /\ entry' = grid
  /\ result' = isValid(grid, r, c, n)
  /\ UNCHANGED <<grid, edits, genVars, asyncVars, gameVars>>

\* countSolutions(grid, max); max = 0 stands for the call without max.
CallCountSolutions(max) ==
  /\ op.name = "none"
  /\ op' = [name |-> "countSolutions", r |-> 0, c |-> 0, v |-> max]
  /\ entry' = grid
  /\ LET run == countSolutionsRun(grid, max)
     IN /\ result' = [count |-> run.count, copy |-> run.copy]
        /\ grid' = run.board
  /\ UNCHANGED <<edits, genVars, asyncVars, gameVars>>

\* Hints.findMove(grid, SolvedGrid)
\* The grids findMove is given as the solution: SolvedGrid, and SolvedGrid
\* with the digits of RectA swapped (a legal complete grid as well).
Solutions ==
  <<SolvedGrid,
    [r \in Idx |-> [c \in Idx |->
       IF <<r, c>> \in RectA THEN 9 - SolvedGrid[r][c] ELSE SolvedGrid[r][c]]]>>

\* Hints.findMove(grid, solution), with the i-th of Solutions.
CallFindMove(i) ==
  /\ op.name = "none"
  /\ op' = [name |-> "findMove", r |-> 0, c |-> 0, v |-> i]
  /\ entry' = grid
  /\ result' = findMove(grid, Solutions[i])
  /\ UNCHANGED <<grid, edits, genVars, asyncVars, gameVars>>

NextEngine ==
  \/ \E p \in EditCells : \E v \in EditValues : SetCell(p, v)
  \/ \E r \in Idx : \E c \in Idx : CallCandidates(r, c)
  \/ \E r \in Idx : \E c \in Idx : \E v \in Digits : CallConflicts(r, c, v)
  \/ \E r \in Idx : \E c \in Idx : \E n \in Digits : CallIsValid(r, c, n)
  \/ \E max \in 0..MaxMax : CallCountSolutions(max)
  \/ \E i \in DOMAIN Solutions : CallFindMove(i)

SpecEngine == InitEngine /\ [][NextEngine]_vars

(* ---------------------------------------------------------------------- *)
(* A caller of findMove (specification SpecHints)                          *)
(* ---------------------------------------------------------------------- *)

\* Cells of SolvedGrid left empty so that no cell has a single candidate and
\* the first hidden single is found in a row, in a column, in a box.
HiddenRowCells ==
  {<<0, 3>>, <<0, 6>>, <<0, 7>>,
  <<1, 0>>, <<1, 2>>, <<1, 7>>,
  <<2, 0>>, <<2, 2>>, <<2, 4>>,
  <<3, 0>>, <<3, 1>>, <<3, 6>>, <<3, 8>>,
  <<4, 1>>, <<4, 4>>,
  <<5, 3>>, <<5, 4>>, <<5, 5>>, <<5, 6>>,
  <<6, 5>>, <<6, 6>>, <<6, 8>>,
  <<7, 1>>, <<7, 3>>,
  <<8, 1>>, <<8, 2>>}
HiddenColCells ==
  {<<0, 0>>, <<0, 6>>, <<0, 7>>, <<0, 8>>,
  <<1, 0>>, <<1, 2>>, <<1, 4>>, <<1, 6>>, <<1, 7>>,
  <<2, 1>>, <<2, 3>>, <<2, 4>>, <<2, 6>>,
  <<3, 0>>, <<3, 4>>,
  <<4, 0>>, <<4, 1>>, <<4, 4>>, <<4, 5>>, <<4, 8>>,
  <<5, 0>>, <<5, 3>>, <<5, 6>>,
  <<6, 1>>, <<6, 4>>, <<6, 6>>,
  <<7, 2>>, <<7, 4>>, <<7, 5>>, <<7, 6>>,
  <<8, 1>>, <<8, 2>>, <<8, 4>>, <<8, 6>>, <<8, 7>>, <<8, 8>>}
HiddenBoxCells ==
  {<<0, 1>>, <<0, 5>>, <<0, 7>>, <<0, 8>>,
  <<1, 3>>, <<1, 4>>, <<1, 8>>,
  <<2, 0>>, <<2, 3>>, <<2, 8>>,
  <<3, 1>>, <<3, 2>>, <<3, 4>>, <<3, 7>>, <<3, 8>>,
  <<4, 2>>, <<4, 3>>, <<4, 8>>,
  <<5, 0>>, <<5, 1>>, <<5, 3>>, <<5, 5>>, <<5, 6>>, <<5, 7>>, <<5, 8>>,
  <<6, 1>>, <<6, 2>>, <<6, 3>>, <<6, 4>>,
  <<7, 1>>, <<7, 3>>, <<7, 6>>,
  <<8, 1>>, <<8, 5>>, <<8, 6>>, <<8, 7>>, <<8, 8>>}

\* The boards the caller starts from: those of StartGrids (complete, no
\* single of either kind, a naked single) and the three with hidden singles.
HintGrids ==
  StartGrids \cup {Blanked(SolvedGrid, HiddenRowCells),
                   Blanked(SolvedGrid, HiddenColCells),
                   Blanked(SolvedGrid, HiddenBoxCells)}

InitHints ==
  /\ GenIdle(Seeds[1])
  /\ grid \in HintGrids
  /\ edits = 0
  /\ op = NoOp
  /\ entry = ZeroBoard
  /\ result = 0
  /\ AsyncIdle
  /\ GameIdle

NextHints ==
  \/ \E p \in EditCells : \E v \in EditValues : SetCell(p, v)
  \/ \E i \in DOMAIN Solutions : CallFindMove(i)

SpecHints == InitHints /\ [][NextHints]_vars

(* ---------------------------------------------------------------------- *)
(* fillBoard called on a grid of the caller (specification SpecFill)       *)
(* ---------------------------------------------------------------------- *)

\* The grids fillBoard is given: one with seven empty cells that has
\* completions, and the same grid with a 4 at (6,8), where no two givens
\* conflict and no completion exists.
FillGrids ==
  {Blanked(SolvedGrid, RectA \cup RectB),
   [Blanked(SolvedGrid, RectA \cup RectB) EXCEPT ![6][8] = 4]}

\* fillBoard(g) is being called: entry keeps the grid as it was given.
InitFill ==
  \E i \in 1..NumSeeds : \E g \in FillGrids :
    /\ pc = "fillCall"
    /\ rng = Seeds[i]
    /\ difficulty = ""
    /\ board = g
    /\ stack = <<>>
    /\ ret = FALSE
    /\ fillResult = "none"
    /\ backtracks = 0
    /\ solution = ZeroBoard
    /\ puzzle = ZeroBoard
    /\ target = [kind |-> "undefined", n |-> 0]
    /\ removed = 0
    /\ positions = <<>>
    /\ pos = 1
    /\ grid = g
    /\ edits = 0
    /\ op = NoOp
    /\ entry = g
    /\ result = 0
    /\ AsyncIdle
  /\ GameIdle

\* The outermost fillBoard call returns to its caller.
FillReturn ==
  /\ pc = "fillRet"
  /\ stack = <<>>
  /\ fillResult' = IF ret THEN "true" ELSE "false"
  /\ pc' = "filled"
  /\ UNCHANGED <<rng, difficulty, board, stack, ret, backtracks, solution, puzzle, target, removed, positions, pos, callVars, asyncVars, gameVars>>

NextFill ==
  \/ FillCall
  \/ FillLoop
  \/ FillRet
  \/ FillReturn

SpecFill == InitFill /\ [][NextFill]_vars

(* ---------------------------------------------------------------------- *)
(* The page: src/game.js, lines 1-498 (SpecGame and SpecPlay)              *)
(* ---------------------------------------------------------------------- *)

\* The cells generate("easy") leaves empty under the second seed; its
\* solution is SolvedGrid.
EasyBlanks ==
  {<<0, 0>>, <<0, 1>>, <<0, 7>>, <<0, 8>>, <<1, 5>>, <<1, 8>>,
   <<2, 1>>, <<2, 3>>, <<2, 4>>, <<2, 8>>, <<3, 0>>, <<3, 1>>,
   <<4, 0>>, <<4, 2>>, <<4, 4>>, <<4, 5>>, <<4, 6>>, <<4, 8>>,
   <<5, 0>>, <<5, 3>>, <<5, 4>>, <<5, 6>>, <<5, 7>>, <<5, 8>>,
   <<7, 0>>, <<7, 1>>, <<7, 2>>, <<7, 3>>, <<7, 4>>, <<7, 5>>,
   <<7, 6>>, <<7, 7>>, <<7, 8>>, <<8, 2>>, <<8, 3>>, <<8, 4>>,
   <<8, 5>>, <<8, 8>>}

\* What generate("expert") returns under the first seed: the solution and
\* the cells left empty. Its puzzle has no cell with a single candidate.
ExpertSolution == Grid(<<
  <<6, 1, 3, 5, 8, 4, 2, 7, 9>>,
  <<9, 7, 8, 1, 3, 2, 5, 6, 4>>,
  <<2, 4, 5, 9, 6, 7, 3, 8, 1>>,
  <<7, 6, 4, 2, 5, 9, 1, 3, 8>>,
  <<8, 9, 2, 4, 1, 3, 7, 5, 6>>,
  <<3, 5, 1, 8, 7, 6, 9, 4, 2>>,
  <<1, 2, 7, 3, 4, 8, 6, 9, 5>>,
  <<4, 3, 9, 6, 2, 5, 8, 1, 7>>,
  <<5, 8, 6, 7, 9, 1, 4, 2, 3>> >>)
ExpertBlanks ==
  {<<0, 0>>, <<0, 1>>, <<0, 2>>, <<0, 3>>, <<0, 4>>, <<0, 5>>,
   <<0, 6>>, <<1, 0>>, <<1, 1>>, <<1, 3>>, <<1, 4>>, <<1, 5>>,
   <<1, 7>>, <<2, 4>>, <<2, 5>>, <<2, 6>>, <<3, 1>>, <<3, 4>>,
   <<3, 6>>, <<3, 8>>, <<4, 0>>, <<4, 2>>, <<4, 3>>, <<4, 4>>,
   <<4, 5>>, <<4, 6>>, <<4, 7>>, <<5, 0>>, <<5, 1>>, <<5, 2>>,
   <<5, 5>>, <<5, 6>>, <<5, 7>>, <<5, 8>>, <<6, 1>>, <<6, 2>>,
   <<6, 6>>, <<6, 7>>, <<6, 8>>, <<7, 0>>, <<7, 2>>, <<7, 3>>,
   <<7, 4>>, <<7, 5>>, <<7, 6>>, <<7, 8>>, <<8, 0>>, <<8, 1>>,
   <<8, 2>>, <<8, 3>>, <<8, 4>>, <<8, 5>>, <<8, 6>>, <<8, 7>>,
   <<8, 8>>}

\* The pair generate(difficulty) hands to the callback.
GeneratedPair(d) ==
  IF d = "expert"
    THEN [puzzle |-> Blanked(ExpertSolution, ExpertBlanks), solution |-> ExpertSolution]
    ELSE [puzzle |-> Blanked(SolvedGrid, EasyBlanks), solution |-> SolvedGrid]

\* The difficulty buttons the user presses.
GameDifficulties == {"easy", "expert"}

\* setInterval / setTimeout return a handle that no active timer has.
FreshHandle(S) == CHOOSE h \in 1..(Cardinality(S) + 1) : h \notin S /\ \A j \in 1..(h - 1) : j \in S

clearInterval(ivs, h) == ivs \ {h}
clearTimeout(tos, h) == {t \in tos : t.id # h}

\* startTimer(): Game.timer = setInterval(.., 1000).
startTimer(g, ivs) ==
  LET h == FreshHandle(ivs)
  IN [Game |-> [g EXCEPT !.timer = h], intervals |-> ivs \cup {h}]

\* What the page's handlers leave alone.
pageFrame == <<genVars, callVars, task, current, delivered>>

\* newGame(difficulty), lines 216-221 and 244: it stops the interval and
\* registers the generateAsync timer.
newGame(d) ==
  /\ calls < MaxAsyncCalls
  /\ intervals' = clearInterval(intervals, Game.timer)
  /\ calls' = calls + 1
  /\ timers' = Append(timers, [id |-> calls + 1, difficulty |-> d])
  /\ UNCHANGED <<Game, timeouts, games, trail, pageFrame>>

\* The callback newGame passed to generateAsync, lines 221-243, run by the
\* timer of the call with what generate returned.
newGameCallback ==
  /\ timers # <<>>
  /\ LET i == NextTimer(timers)
         pair == GeneratedPair(timers[i].difficulty)
         g == [Game EXCEPT !.difficulty = timers[i].difficulty,
                           !.puzzle = pair.puzzle,
                           !.solution = pair.solution,
                           !.board = pair.puzzle,
                           !.notes = EmptyNotes,
                           !.selected = NoCell, !.noteMode = FALSE, !.mistakes = 0,
                           !.score = 0, !.seconds = 0, !.done = FALSE, !.history = <<>>,
                           !.hint = Null, !.streak = 0, !.paused = FALSE]
         st == startTimer(g, intervals)
     IN /\ Game' = st.Game
        /\ intervals' = st.intervals
        /\ timers' = SubSeq(timers, 1, i - 1) \o SubSeq(timers, i + 1, Len(timers))
  /\ games' = games + 1
  /\ trail' = <<>>
  /\ UNCHANGED <<calls, timeouts, pageFrame>>

\* The callback of an active interval runs, lines 202-211: Game.seconds++.
timerTick(h) ==
  /\ h \in intervals
  /\ Game.seconds < MaxSeconds
  /\ Game' = [Game EXCEPT !.seconds = @ + 1]
  /\ UNCHANGED <<intervals, timeouts, games, trail, calls, timers, pageFrame>>

\* togglePause(), lines 423-434.
togglePause ==
  /\ ~Game.done
  /\ IF ~Game.paused
       THEN /\ Game' = [Game EXCEPT !.paused = TRUE]
            /\ intervals' = clearInterval(intervals, Game.timer)
       ELSE LET st == startTimer([Game EXCEPT !.paused = FALSE], intervals)
            IN Game' = st.Game /\ intervals' = st.intervals
  /\ UNCHANGED <<timeouts, games, trail, calls, timers, pageFrame>>

\* The cells the user taps and the digits the user enters: two cells that
\* generate("easy") left empty, (7,7) printed in the expert puzzle and (8,8)
\* empty there too, and a cell printed in both puzzles. 3 is the solution of
\* (7,7) in the easy puzzle and of (8,8) in the expert one, 9 the solution
\* of (8,8) in the easy puzzle.
SelectCells == {<<7, 7>>, <<8, 8>>, <<1, 2>>}
InputDigits == {3, 9}

\* Game.board is an array (it is null until the first callback has run).
Loaded == games > 0

\* The trail can take another recorded action.
HistoryRoom == Len(trail) < MaxHistory

\* The entries of Game.history: {type:'place'|'erase', r, c, val, notes} and
\* {type:'note', r, c, prev}, the latter with val 0 for "m.val || 0" and
\* prev in the field notes.
\* (the mutant's entry records no val)
PlaceEntry_noVal(g, r, c) ==
  [type |-> "place", r |-> r, c |-> c, val |-> 0, notes |-> g.notes[r][c]]
PlaceEntry(g, r, c) ==
  [type |-> "place", r |-> r, c |-> c, val |-> g.board[r][c], notes |-> g.notes[r][c]]
EraseEntry(g, r, c) ==
  [type |-> "erase", r |-> r, c |-> c, val |-> g.board[r][c], notes |-> g.notes[r][c]]
NoteEntry(g, r, c) ==
  [type |-> "note", r |-> r, c |-> c, val |-> 0, notes |-> g.notes[r][c]]

\* An element of the trail: the board and the notes before a recorded
\* action, and whether only recorded actions and undos have run since.
Snapshot == [board |-> Game.board, notes |-> Game.notes, exact |-> TRUE]

\* The trail after a change that Game.history does not record.
Interrupted(tr) == [k \in 1..Len(tr) |-> [tr[k] EXCEPT !.exact = FALSE]]

\* selectCell(row, col), lines 250-292. Before the first callback the read
\* of Game.board[row] throws after the three assignments.
selectCell(p) ==
  /\ ~Game.paused
  /\ Game' = [Game EXCEPT !.selected = p, !.hint = Null]
  /\ UNCHANGED <<intervals, timeouts, games, trail, calls, timers, pageFrame>>

\* clearNotes(row, col), lines 40-56, were Engine.boxOrigin a function: the
\* notes of every empty peer lose the digits that are no candidates.
clearNotes(g, row, col) ==
  LET peers == {p \in Cells : p[1] = row \/ p[2] = col
                              \/ (box(p[1]) = box(row) /\ box(p[2]) = box(col))}
  IN [r \in Idx |-> [c \in Idx |->
        IF <<r, c>> \in peers /\ g.board[r][c] = 0 /\ g.notes[r][c] # {}
          THEN g.notes[r][c] \cap candidates(g.board, r, c)
          ELSE g.notes[r][c]]]

checkWin(g) == \A r \in Idx : \A c \in Idx : g.board[r][c] = g.solution[r][c]

\* triggerWin(), lines 65-76.
triggerWin(g, ivs, tos) ==
  [Game |-> [g EXCEPT !.done = TRUE],
   intervals |-> clearInterval(ivs, g.timer),
   timeouts |-> clearTimeout(tos, g.wrongTimer)]

\* Math.max(0, Game.score - 15)
Penalty(score) == IF score - 15 > 0 THEN score - 15 ELSE 0

\* const pts = Game.streak>=5 ? 25 : Game.streak>=3 ? 15 : 10
Points(streak) == IF streak >= 5 THEN 25 ELSE IF streak >= 3 THEN 15 ELSE 10

\* placeNumber(n) in note mode, lines 300-318.
placeNote(n) ==
  LET row == Game.selected[1]
      col == Game.selected[2]
      had == n \in Game.notes[row][col]
  IN /\ had \/ n \in candidates(Game.board, row, col)
     /\ HistoryRoom
     /\ Game' = [Game EXCEPT
                   !.history = Append(@, NoteEntry(Game, row, col)),
                   !.notes[row][col] = IF had THEN @ \ {n} ELSE @ \cup {n}]
     /\ trail' = Append(trail, Snapshot)
     /\ UNCHANGED <<intervals, timeouts>>

\* placeNumber(n) of a digit that is not the solution's, lines 321-359.
placeWrong(n) ==
  LET row == Game.selected[1]
      col == Game.selected[2]
      rest == clearTimeout(timeouts, Game.wrongTimer)
      h == FreshHandle({t.id : t \in rest})
  IN /\ HistoryRoom
     /\ Game.mistakes < MaxMistakes
     /\ Game' = [Game EXCEPT
                   !.history = Append(@, PlaceEntry(Game, row, col)),
                   !.board[row][col] = n,
                   !.notes[row][col] = {},
                   !.mistakes = @ + 1,
                   !.score = Penalty(@),
                   !.streak = 0,
                   !.wrongTimer = h]
     /\ timeouts' = rest \cup {[id |-> h, row |-> row, col |-> col, n |-> n,
                                savedNotes |-> Game.notes[row][col], game |-> games]}
     /\ trail' = Append(trail, Snapshot)
     /\ UNCHANGED intervals

\* placeNumber(n) of the solution's digit, lines 321-324 and 361-382.
\* clearNotes calls Engine.boxOrigin first: when that is no function the
\* TypeError ends the handler at line 41.
placeCorrect(n) ==
  LET row == Game.selected[1]
      col == Game.selected[2]
      g1 == [Game EXCEPT !.history = Append(@, PlaceEntry(Game, row, col)),
                         !.board[row][col] = n,
                         !.notes[row][col] = {}]
      g2 == [g1 EXCEPT !.notes = clearNotes(g1, row, col),
                       !.streak = @ + 1,
                       !.score = @ + Points(g1.streak + 1)]
      won == triggerWin(g2, intervals, timeouts)
  IN /\ HistoryRoom
     /\ trail' = Append(trail, Snapshot)
     /\ IF ~BoxIsFunction
          THEN Game' = g1 /\ UNCHANGED <<intervals, timeouts>>
        ELSE IF checkWin(g2)
          THEN Game' = won.Game /\ intervals' = won.intervals /\ timeouts' = won.timeouts
        ELSE Game' = g2 /\ UNCHANGED <<intervals, timeouts>>

\* placeNumber(n), lines 294-382.
placeNumber(n) ==
  /\ Game.selected # NoCell
  /\ ~Game.done
  /\ ~Game.paused
  /\ Loaded
  /\ Game.puzzle[Game.selected[1]][Game.selected[2]] = 0
  /\ IF Game.noteMode THEN placeNote(n)
     ELSE IF n # Game.solution[Game.selected[1]][Game.selected[2]] THEN placeWrong(n)
     ELSE placeCorrect(n)
  /\ UNCHANGED <<games, calls, timers, pageFrame>>

\* The wrong-placement timeout t runs, lines 352-357.
wrongTimerFires(t) ==
  /\ t \in timeouts
  /\ timeouts' = timeouts \ {t}
  /\ Game' = [Game EXCEPT !.board[t.row][t.col] = 0,
                          !.notes[t.row][t.col] = t.savedNotes]
  /\ trail' = Interrupted(trail)
  /\ UNCHANGED <<intervals, games, calls, timers, pageFrame>>

\* eraseCell(), lines 384-392.
eraseCell ==
  /\ Game.selected # NoCell
  /\ ~Game.paused
  /\ Loaded
  /\ Game.puzzle[Game.selected[1]][Game.selected[2]] = 0
  /\ HistoryRoom
  /\ LET r == Game.selected[1]
         c == Game.selected[2]
     IN Game' = [Game EXCEPT !.history = Append(@, EraseEntry(Game, r, c)),
                             !.board[r][c] = 0,
                             !.notes[r][c] = {}]
  /\ trail' = Append(trail, Snapshot)
  /\ UNCHANGED <<intervals, timeouts, games, calls, timers, pageFrame>>

\* undoMove(), lines 394-401 ("m.val || 0" is the val of the entry: a note
\* entry has none and NoteEntry records 0). The run undoes the actions
\* whose before-state the trail holds.
undoMove ==
  /\ Game.history # <<>>
  /\ ~Game.paused
  /\ trail # <<>>
  /\ LET m == Game.history[Len(Game.history)]
     IN Game' = [Game EXCEPT !.history = SubSeq(@, 1, Len(@) - 1),
                             !.board[m.r][m.c] = m.val,
                             !.notes[m.r][m.c] = m.notes]
  /\ trail' = SubSeq(trail, 1, Len(trail) - 1)
  /\ UNCHANGED <<intervals, timeouts, games, calls, timers, pageFrame>>

\* toggleNotes(), lines 403-412.
toggleNotes ==
  /\ Game' = [Game EXCEPT !.noteMode = ~@]
  /\ UNCHANGED <<intervals, timeouts, games, trail, calls, timers, pageFrame>>

\* autoNotes(), lines 436-448. Before the first callback the read of
\* Game.board[r] throws.
autoNotes ==
  /\ ~Game.paused
  /\ Loaded
  /\ Game' = [Game EXCEPT !.notes = [r \in Idx |-> [c \in Idx |->
                IF Game.board[r][c] = 0 THEN candidates(Game.board, r, c)
                ELSE Game.notes[r][c]]]]
  /\ trail' = Interrupted(trail)
  /\ UNCHANGED <<intervals, timeouts, games, calls, timers, pageFrame>>

\* showHint(), lines 450-459. Nothing changes when findMove throws or
\* returns null. The user asks for a hint while no action is recorded.
showHint ==
  /\ ~Game.paused
  /\ Loaded
  /\ Game.history = <<>>
  /\ LET m == findMove(Game.board, Game.solution)
     IN /\ m.kind = "hint"
        /\ Game' = [Game EXCEPT !.hint = m, !.selected = <<m.row, m.col>>]
  /\ UNCHANGED <<intervals, timeouts, games, trail, calls, timers, pageFrame>>

\* applyHint(), lines 461-475; clearNotes throws as in placeNumber.
applyHint ==
  /\ Game.hint # Null
  /\ ~Game.paused
  /\ HistoryRoom
  /\ LET row == Game.hint.row
         col == Game.hint.col
         g1 == [Game EXCEPT !.history = Append(@, PlaceEntry(Game, row, col)),
                            !.board[row][col] = Game.hint.value,
                            !.notes[row][col] = {}]
         g2 == [g1 EXCEPT !.notes = clearNotes(g1, row, col),
                          !.score = @ + 5,
                          !.hint = Null]
         won == triggerWin(g2, intervals, timeouts)
     IN IF ~BoxIsFunction
          THEN Game' = g1 /\ UNCHANGED <<intervals, timeouts>>
        ELSE IF checkWin(g2)
          THEN Game' = won.Game /\ intervals' = won.intervals /\ timeouts' = won.timeouts
        ELSE Game' = g2 /\ UNCHANGED <<intervals, timeouts>>
  /\ trail' = Append(trail, Snapshot)
  /\ UNCHANGED <<games, calls, timers, pageFrame>>

\* The page as its scripts leave it: Game is the literal, and newGame('easy')
\* (line 498) has registered the first generateAsync timer.
PageLoaded ==
  /\ Game = GameLiteral
  /\ intervals = {}
  /\ timeouts = {}
  /\ games = 0
  /\ trail = <<>>
  /\ calls = 1
  /\ timers = <<[id |-> 1, difficulty |-> "easy"]>>

\* The cells of S in row-major order.
RowMajor(S) ==
  [k \in 1..Cardinality(S) |->
     CHOOSE p \in S : Cardinality({q \in S : q[1] * 9 + q[2] < p[1] * 9 + p[2]}) = k - 1]

\* A game in progress: after the first callback the user has tapped the
\* empty cells of the easy puzzle in row-major order, all but LastCells, and
\* entered the solution's digit in each (every placement pushed its history
\* entry and set the cell, and neither score nor streak, since clearNotes
\* threw).
LastCells == {<<8, 8>>}
FilledOrder == RowMajor(EasyBlanks \ LastCells)
FilledUpTo(k) ==
  Blanked(SolvedGrid, EasyBlanks \ {FilledOrder[i] : i \in 1..k})
InProgress ==
  /\ Game = [GameLiteral EXCEPT
               !.puzzle = Blanked(SolvedGrid, EasyBlanks),
               !.solution = SolvedGrid,
               !.board = FilledUpTo(Len(FilledOrder)),
               !.selected = FilledOrder[Len(FilledOrder)],
               !.history = [k \in 1..Len(FilledOrder) |->
                              [type |-> "place", r |-> FilledOrder[k][1],
                               c |-> FilledOrder[k][2], val |-> 0, notes |-> {}]],
               !.timer = 1]
  /\ intervals = {1}
  /\ timeouts = {}
  /\ games = 1
  /\ trail = <<[board |-> FilledUpTo(Len(FilledOrder) - 1),
                 notes |-> EmptyNotes, exact |-> TRUE]>>
  /\ calls = 1
  /\ timers = <<>>

\* The expert game just loaded: the page was loaded, its first callback has
\* run, the user has pressed "expert" and that callback has run too.
ExpertLoaded ==
  /\ Game = [GameLiteral EXCEPT
               !.difficulty = "expert",
               !.puzzle = GeneratedPair("expert").puzzle,
               !.solution = GeneratedPair("expert").solution,
               !.board = GeneratedPair("expert").puzzle,
               !.timer = 1]
  /\ intervals = {1}
  /\ timeouts = {}
  /\ games = 2
  /\ trail = <<>>
  /\ calls = 2
  /\ timers = <<>>

\* Nothing of the engine is running.
EngineIdle ==
  /\ GenIdle(Seeds[1])
  /\ CallIdle
  /\ task = "none"
  /\ current = 0
  /\ delivered = <<>>

\* Games and timers: the user starts games, pauses, taps cells and enters
\* digits, while the timers of the page run.
InitGame == EngineIdle /\ PageLoaded

NextGame ==
  \/ \E d \in GameDifficulties : newGame(d)
  \/ newGameCallback
  \/ \E h \in intervals : timerTick(h)
  \/ togglePause
  \/ \E p \in SelectCells : selectCell(p)
  \/ \E n \in InputDigits : placeNumber(n)
  \/ \E t \in timeouts : wrongTimerFires(t)
  \/ autoNotes

SpecGame == InitGame /\ [][NextGame]_vars

\* One game being played, from a game in progress or from the expert game
\* just loaded: the user taps PlayCell (empty in both), enters digits,
\* erases, asks for hints and undoes.
PlayCell == <<8, 8>>
InitPlay == EngineIdle /\ (InProgress \/ ExpertLoaded)

NextPlay ==
  \/ selectCell(PlayCell)
  \/ \E n \in InputDigits : placeNumber(n)
  \/ \E t \in timeouts : wrongTimerFires(t)
  \/ eraseCell
  \/ undoMove
  \/ toggleNotes
  \/ showHint
  \/ applyHint

SpecPlay == InitPlay /\ [][NextPlay]_vars
(* ---------------------------------------------------------------------- *)
(* What a legal grid is                                                    *)
(* ---------------------------------------------------------------------- *)

RowCells(r) == {<<r, c>> : c \in Idx}
ColCells(c) == {<<r, c>> : r \in Idx}
BoxCells(b) == {<<(3 * (b \div 3)) + dr, (3 * (b % 3)) + dc>> : dr \in 0..2, dc \in 0..2}
Units == {RowCells(i) : i \in Idx} \cup {ColCells(i) : i \in Idx} \cup {BoxCells(i) : i \in Idx}

NoZero(g) == \A r \in Idx : \A c \in Idx : g[r][c] # 0

\* Every row, column and box holds each digit 1..9 (hence exactly once).
IsLegalComplete(g) == \A u \in Units : {g[p[1]][p[2]] : p \in u} = Digits

\* Every non-zero cell of p equals the same cell of s.
SubsetOf(p, s) == \A r \in Idx : \A c \in Idx : p[r][c] # 0 => p[r][c] = s[r][c]

NumZero(g) == Cardinality(ZeroCells(g))

(* ---------------------------------------------------------------------- *)
(* Claims about generate and fillBoard (specification Spec)                *)
(* ---------------------------------------------------------------------- *)

\* C1: for every difficulty name, the puzzle generate returns has exactly
\* one completion (countSolutions(puzzle, 2) = 1) and the completion the
\* solver finds is the returned solution.
C1_UniqueSolution ==
  pc = "done" =>
    /\ countSolutions(puzzle, 2) = 1
    /\ countSolutionsRun(puzzle, 1).copy = solution

\* C1 witness: generate has returned a puzzle with removed cells, for a name
\* of the table and for a name outside it.
C1_Witness == pc = "done" /\ difficulty = "impossible" /\ NumZero(puzzle) > 0

\* C2: in the returned pair, every non-zero cell of puzzle equals the same
\* cell of solution, solution has no zero cell, and every row, column and
\* box of solution holds each digit 1..9 exactly once.
C2_PuzzleWithinLegalSolution ==
  pc = "done" =>
    /\ SubsetOf(puzzle, solution)
    /\ NoZero(solution)
    /\ IsLegalComplete(solution)

\* C2 witness: a returned puzzle that has both clues and removed cells.
C2_Witness ==
  /\ pc = "done"
  /\ difficulty = "hard"
  /\ \E p \in Cells : puzzle[p[1]][p[2]] # 0
  /\ \E p \in Cells : puzzle[p[1]][p[2]] = 0

\* The removal target the specification gives a difficulty name.
ClaimedTarget(d) == IF d \in DOMAIN REMOVALS THEN REMOVALS[d] ELSE REMOVALS.easy

\* C3 (as claimed): the returned puzzle never has more zero cells than the
\* removal target of its difficulty, the target of a name outside the table
\* being easy's 38.
C3_AtMostTarget == pc = "done" => NumZero(puzzle) <= ClaimedTarget(difficulty)

C10_FillSucceeds ==
  (pc = "fillRet" /\ stack = <<>>) =>
    /\ ret = TRUE
    /\ NoZero(board)
    /\ IsLegalComplete(board)

\* C10 witness: the outermost fillBoard call has returned, after at least
\* one of its nested calls had failed and been backtracked.
C10_Witness == pc = "fillRet" /\ stack = <<>> /\ ret = TRUE /\ backtracks > 0

(* ---------------------------------------------------------------------- *)
(* Claims about the pure helpers (specification SpecEngine)                *)
(* ---------------------------------------------------------------------- *)

\* The 20 peers of a cell: the other cells of its row, column and box.
PeersF ==
  [p \in Cells |->
     {q \in Cells :
        /\ q # p
        /\ \/ q[1] = p[1]
           \/ q[2] = p[2]
           \/ BoxStart(q[1]) = BoxStart(p[1]) /\ BoxStart(q[2]) = BoxStart(p[2])}]
PeersOf(r, c) == PeersF[<<r, c>>]

PeerValues(g, r, c) == {g[q[1]][q[2]] : q \in PeersOf(r, c)}

\* C5: candidates(grid, r, c) is empty when the cell is non-zero; when it is
\* zero it is {1..9} minus the values of the cell's row, column and box, so
\* it holds no value of a peer and together with the peer values covers 1..9.
C5_Candidates ==
  op.name = "candidates" =>
    LET PV == PeerValues(entry, op.r, op.c)
    IN /\ entry[op.r][op.c] # 0 => result = {}
       /\ entry[op.r][op.c] = 0 =>
            /\ result = Digits \ PV
            /\ result \cap PV = {}
            /\ Digits \subseteq (result \cup PV)

\* C5 witness: an empty cell that is left two candidates.
C5_Witness ==
  /\ op.name = "candidates"
  /\ entry[op.r][op.c] = 0
  /\ Cardinality(result) = 2

\* C6: the cells conflicts(grid, r, c, v) returns are exactly the peers of
\* (r, c) that hold v, whatever (r, c) itself holds.
C6_Conflicts ==
  op.name = "conflicts" =>
    {result[i] : i \in DOMAIN result} =
      {p \in PeersOf(op.r, op.c) : entry[p[1]][p[2]] = op.v}

\* C6 witness: (r, c) itself holds v and so does one of its peers.
C6_Witness ==
  /\ op.name = "conflicts"
  /\ entry[op.r][op.c] = op.v
  /\ result # <<>>

\* C7 (as claimed): no coordinate appears twice in the list conflicts returns.
C7_NoDuplicates ==
  op.name = "conflicts" =>
    \A i \in DOMAIN result : \A j \in DOMAIN result : i # j => result[i] # result[j]

\* No two peers hold the same non-zero value.
ConsistentGivens(g) ==
  \A p \in Cells :
    g[p[1]][p[2]] # 0 => \A q \in PeersF[p] : g[q[1]][q[2]] # g[p[1]][p[2]]

\* The digits that some zero cell of g could take: a completion gives every
\* zero cell a digit that none of the cell's given peers holds.
Allowed(g) ==
  {v \in Digits : \E p \in ZeroCells(g) : \A q \in PeersF[p] : g[q[1]][q[2]] # v}

\* The full valid completions of g: the ways to give each zero cell a digit
\* so that no two peers of the full grid are equal (each row, column and
\* box then holds 1..9 once), the givens included.
Completions(g) ==
  IF ~ConsistentGivens(g) THEN {}
  ELSE LET Z == ZeroCells(g)
       IN {f \in [Z -> Allowed(g)] :
             \A p \in Z : \A q \in PeersF[p] :
               (IF q \in Z THEN f[q] ELSE g[q[1]][q[2]]) # f[p]}

Min(a, b) == IF a <= b THEN a ELSE b

\* C8 (as claimed): for every grid, countSolutions(grid, max) returns
\* min(max, N), N the number of full valid completions; max defaults to 2.
C8_CountIsMin ==
  op.name = "countSolutions" =>
    result.count = Min(IF op.v = 0 THEN 2 ELSE op.v, Cardinality(Completions(entry)))

\* C8 (amended): for every grid in which no two peers hold the same non-zero
\* value, countSolutions(grid, max) returns min(max, N); for every grid it
\* returns at most max, and it stops exploring when the counter reaches max:
\* the scratch copy is then left complete, and otherwise left as the grid
\* was given; max defaults to 2.
C8_CountIsMinConsistent ==
  op.name = "countSolutions" =>
    LET max == IF op.v = 0 THEN 2 ELSE op.v
    IN /\ ConsistentGivens(entry) =>
            result.count = Min(max, Cardinality(Completions(entry)))
       /\ result.count <= max
       /\ result.count = max => NoZero(result.copy)
       /\ result.count < max => result.copy = entry

\* C8 witness: a grid with 3 completions, counted with max = 2.
C8_Witness ==
  /\ op.name = "countSolutions"
  /\ op.v = 2
  /\ ConsistentGivens(entry)
  /\ Cardinality(Completions(entry)) = 3
  /\ result.count = 2

C11_FillContract ==
  /\ \A p \in Cells : entry[p[1]][p[2]] # 0 => board[p[1]][p[2]] = entry[p[1]][p[2]]
  /\ (pc = "filled" /\ fillResult = "true") => NoZero(board)
  /\ (pc = "filled" /\ fillResult = "false") => board = entry

\* C11 witness: fillBoard has returned false after it had placed digits and
\* taken them back.
C11_Witness ==
  /\ pc = "filled"
  /\ fillResult = "false"
  /\ backtracks > 0
  /\ ZeroCells(entry) # {}

(* ---------------------------------------------------------------------- *)
(* Claims about findMove (specification SpecHints)                         *)
(* ---------------------------------------------------------------------- *)

\* The candidates of a cell, from its 20 peers.
CandOf(g, p) == IF g[p[1]][p[2]] # 0 THEN {} ELSE Digits \ PeerValues(g, p[1], p[2])

\* The cells with exactly one candidate.
NakedCells(g) == {p \in Cells : Cardinality(CandOf(g, p)) = 1}

\* The k-th unit as a set: rows 0..8, columns 0..8, boxes 0..8.
UnitOf(k) == IF k < 9 THEN RowCells(k) ELSE IF k < 18 THEN ColCells(k - 9) ELSE BoxCells(k - 18)

\* The cells of unit k that could take digit n.
Places(g, k, n) == {p \in UnitOf(k) : n \in CandOf(g, p)}

\* The (unit, digit) pairs with a hidden single: the digit is absent from the
\* unit and exactly one empty cell of the unit has it as a candidate.
HiddenOf(g) ==
  {kn \in (0..26) \X Digits :
     /\ \A p \in UnitOf(kn[1]) : g[p[1]][p[2]] # kn[2]
     /\ Cardinality(Places(g, kn[1], kn[2])) = 1}

\* Is pair x before pair y in the order rows, columns, boxes, digits ascending?
PairBefore(x, y) == x[1] < y[1] \/ (x[1] = y[1] /\ x[2] <= y[2])

NoRepeat(list) == \A i \in DOMAIN list : \A j \in DOMAIN list : i # j => list[i] # list[j]
Range(list) == {list[i] : i \in DOMAIN list}

\* C12 (as claimed): on a board where some empty cell has exactly one
\* candidate, findMove returns a "Naked Single" hint for the first such cell
\* in row-major order, with that cell's sole candidate as its value.
C12_NakedSingle ==
  (op.name = "findMove" /\ NakedCells(entry) # {}) =>
    LET p == FirstCell(NakedCells(entry))
    IN /\ result.kind = "hint"
       /\ result.technique = "Naked Single"
       /\ <<result.row, result.col>> = p
       /\ CandOf(entry, p) = {result.value}

\* C13 (as claimed): whenever the board has an empty cell, findMove returns a
\* hint: it returns neither none nor fails with an error.
C13_AlwaysHint ==
  (op.name = "findMove" /\ ZeroCells(entry) # {}) => result.kind = "hint"

\* C14: findMove returns none for every board without an empty cell, the
\* solution itself and full boards with incorrect digits alike.
C14_NoneOnFull ==
  (op.name = "findMove" /\ ZeroCells(entry) = {}) => result = Null

\* C14 witness: findMove was called on a full board that differs from both
\* solutions.
C14_Witness ==
  /\ op.name = "findMove"
  /\ ZeroCells(entry) = {}
  /\ \A i \in DOMAIN Solutions : entry # Solutions[i]
  /\ result = Null

\* C15: when no cell has exactly one candidate and some (unit, digit) pair has
\* a hidden single, findMove returns the hint of the first such pair: its
\* target is the one cell of the unit that can take the digit, its value the
\* digit, its technique label names the unit kind.
C15_HiddenSingle ==
  (op.name = "findMove" /\ NakedCells(entry) = {} /\ HiddenOf(entry) # {}) =>
    LET kn == CHOOSE x \in HiddenOf(entry) : \A y \in HiddenOf(entry) : PairBefore(x, y)
    IN /\ result.kind = "hint"
       /\ result.technique = (IF kn[1] < 9 THEN "Hidden Single (Row)"
                              ELSE IF kn[1] < 18 THEN "Hidden Single (Col)"
                              ELSE "Hidden Single (Box)")
       /\ Places(entry, kn[1], kn[2]) = {<<result.row, result.col>>}
       /\ result.value = kn[2]

\* C15 witness: a hidden single of a box was returned on a board that holds
\* an incorrect digit.
C15_Witness ==
  /\ op.name = "findMove"
  /\ result.kind = "hint"
  /\ result.technique = "Hidden Single (Box)"
  /\ \E p \in Cells : entry[p[1]][p[2]] \notin {0, SolvedGrid[p[1]][p[2]]}

Ids(list) == {list[i].id : i \in DOMAIN list}

\* What generate guarantees of the pair it returns.
GenerateGuarantees(e) ==
  /\ countSolutions(e.puzzle, 2) = 1
  /\ countSolutionsRun(e.puzzle, 1).copy = e.solution
  /\ SubsetOf(e.puzzle, e.solution)
  /\ IsLegalComplete(e.solution)

\* C19: a callback is invoked only in the task of its own timer, never in
\* the task that called generateAsync; it is invoked once, with a pair that
\* has the guarantees of generate; callbacks run in the order of the calls;
\* and when the event loop has nothing left to run, every call has had its
\* callback.
C19_Async ==
  [][/\ delivered' # delivered =>
          /\ task = "timer"
          /\ Len(delivered') = Len(delivered) + 1
          /\ SubSeq(delivered', 1, Len(delivered)) = delivered
          /\ LET e == delivered'[Len(delivered')]
             IN /\ Ids(delivered) = 1..(e.id - 1)
                /\ e.id <= calls
                /\ e.id \notin Ids(timers')
                /\ GenerateGuarantees(e)
     /\ (task' = "none" /\ timers' = <<>>) => Ids(delivered') = 1..calls'
     /\ Len(delivered') + Len(timers') + (IF task' = "timer" THEN 1 ELSE 0) = calls'
    ]_vars

\* C19 witness: two calls were pending at the same time and both callbacks
\* have run.
C19_Witness ==
  /\ Len(delivered) = MaxAsyncCalls
  /\ task = "none"
  /\ \E i \in DOMAIN delivered : \E j \in DOMAIN delivered :
       delivered[i].difficulty # delivered[j].difficulty

(* ---------------------------------------------------------------------- *)
(* Claims about generate's removal loop (specification Spec)               *)
(* ---------------------------------------------------------------------- *)

\* The loop goes on to another coordinate: one is left and the kept
\* removals have not reached the target.
LoopGoesOn ==
  /\ pos <= Len(positions)
  /\ ~(target.kind = "number" /\ removed >= target.n)

\* C20: the removal loop visits the 81 coordinates in an order without
\* repeats, so a coordinate is tentatively zeroed at most once; an iteration
\* keeps the removal if and only if countSolutions of the puzzle with that
\* cell zeroed is exactly 1, and otherwise leaves puzzle as it was; the loop
\* ends, changing nothing, as soon as the kept removals have reached the
\* target (or no coordinate is left); and after every iteration the number
\* of zero cells of puzzle is the removed counter and puzzle has exactly one
\* completion.
C20_RemovalLoop ==
  [][pc = "remove" =>
       /\ Len(positions) = 81
       /\ \A i \in 1..81 : \A j \in 1..81 : positions[i] = positions[j] => i = j
       /\ LoopGoesOn =>
            LET r == positions[pos][1]
                c == positions[pos][2]
                zeroed == [puzzle EXCEPT ![r][c] = 0]
            IN /\ puzzle[r][c] # 0
               /\ pc' = "remove"
               /\ pos' = pos + 1
               /\ IF countSolutions(zeroed, 2) = 1
                    THEN puzzle' = zeroed /\ removed' = removed + 1
                    ELSE puzzle' = puzzle /\ removed' = removed
       /\ ~LoopGoesOn => pc' = "done" /\ puzzle' = puzzle /\ removed' = removed
       /\ target.kind = "number" => removed' <= target.n
       /\ NumZero(puzzle') = removed'
       /\ countSolutions(puzzle', 2) = 1
    ]_vars

\* C20 witness: the loop has ended at the target with coordinates left,
\* after iterations that kept their removal and iterations that restored
\* the cell.
C20_Witness ==
  /\ pc = "done"
  /\ target.kind = "number"
  /\ removed = target.n
  /\ removed > 0
  /\ pos - 1 > removed
  /\ pos <= 81

(* ---------------------------------------------------------------------- *)
(* Claims about the hints the game applies (specification SpecHints)       *)
(* ---------------------------------------------------------------------- *)

\* C22: when every non-zero cell of the board equals the same cell of the
\* solution passed, a valid complete grid, every hint findMove returns
\* targets a cell that is empty on the board and has value
\* solution[row][col].
C22_HintIsSolution ==
  (/\ op.name = "findMove"
   /\ IsLegalComplete(Solutions[op.v])
   /\ SubsetOf(entry, Solutions[op.v])
   /\ result.kind = "hint") =>
    /\ entry[result.row][result.col] = 0
    /\ result.value = Solutions[op.v][result.row][result.col]

\* C22 witness: findMove returned a hint on a board that agrees with the
\* second solution, which differs from the first.
C22_Witness ==
  /\ op.name = "findMove"
  /\ op.v = 2
  /\ SubsetOf(entry, Solutions[2])
  /\ ZeroCells(entry) # {}
  /\ result.kind = "hint"
  /\ result.value = Solutions[2][result.row][result.col]

(* ---------------------------------------------------------------------- *)
(* Claims about the timers of the page (specification SpecGame)            *)
(* ---------------------------------------------------------------------- *)

\* The step runs the callback of the wrong-placement timeout t: the timeout
\* is gone and nothing else of the timers has changed.
Reverts(t) ==
  /\ t \in timeouts
  /\ timeouts' = timeouts \ {t}
  /\ intervals' = intervals
  /\ games' = games
  /\ Game'.wrongTimer = Game.wrongTimer
  /\ Game'.history = Game.history

\* C21: newGame cancels the pending wrong-placement revert: a revert never
\* runs on a game other than the one its wrong digit was placed in, so it
\* never sets a cell of the new puzzle's board to 0 and never replaces the
\* new game's notes.
C21_RevertCancelledByNewGame ==
  [][\A t \in timeouts : Reverts(t) => t.game = games]_vars

\* C23: at most one 1-second interval is active, and none while the game
\* is paused or done.
C23_OneInterval ==
  /\ Cardinality(intervals) <= 1
  /\ (Game.paused \/ Game.done) => intervals = {}

\* C24: within a puzzle session every cell that is non-zero in Game.puzzle
\* holds the same value in Game.board.
C24_GivensKept ==
  Loaded => \A p \in Cells :
              Game.puzzle[p[1]][p[2]] # 0 => Game.board[p[1]][p[2]] = Game.puzzle[p[1]][p[2]]

\* C25: a revert that finds another digit than its wrong digit in its cell
\* leaves the cell's value and notes unchanged.
C25_RevertOnlyItsDigit ==
  [][\A t \in timeouts :
       (Reverts(t) /\ Game.board[t.row][t.col] # t.n) =>
         /\ Game'.board[t.row][t.col] = Game.board[t.row][t.col]
         /\ Game'.notes[t.row][t.col] = Game.notes[t.row][t.col]]_vars

\* C26: every wrong digit on the board is removed by its revert unless the
\* user removes it first; in the form a finite run refutes: every wrong
\* digit the user has placed and that is still on the board has its revert
\* pending.
C26_EveryWrongDigitReverted ==
  Loaded =>
    \A p \in Cells :
      (/\ Game.puzzle[p[1]][p[2]] = 0
       /\ Game.board[p[1]][p[2]] # 0
       /\ Game.board[p[1]][p[2]] # Game.solution[p[1]][p[2]]) =>
        \E t \in timeouts :
          t.row = p[1] /\ t.col = p[2] /\ t.n = Game.board[p[1]][p[2]]

\* C28: while Game.paused is true, Game.board, Game.notes, Game.history,
\* Game.score, Game.mistakes and Game.seconds do not change.
C28_PausedFrozen ==
  [][(Game.paused /\ Game'.paused) =>
       /\ Game'.board = Game.board
       /\ Game'.notes = Game.notes
       /\ Game'.history = Game.history
       /\ Game'.score = Game.score
       /\ Game'.mistakes = Game.mistakes
       /\ Game'.seconds = Game.seconds]_vars

(* ---------------------------------------------------------------------- *)
(* Claims about one game being played (specification SpecPlay)            *)
(* ---------------------------------------------------------------------- *)

Undoes ==
  /\ Game.history # <<>>
  /\ trail # <<>>
  /\ games' = games
  /\ Game'.history = SubSeq(Game.history, 1, Len(Game.history) - 1)
  /\ trail' = SubSeq(trail, 1, Len(trail) - 1)

\* C29: undoMove is the inverse of the last recorded action: after a
\* recorded action (and the recorded actions and undos that followed it),
\* undoMove leaves Game.board equal to the board before the action and the
\* notes of the acted-on cell equal to its notes before the action; so k
\* undos after k recorded actions restore the board before the first.
C29_UndoIsInverse ==
  [][(Undoes /\ trail[Len(trail)].exact) =>
       LET m == Game.history[Len(Game.history)]
           before == trail[Len(trail)]
       IN /\ Game'.board = before.board
          /\ Game'.notes[m.r][m.c] = before.notes[m.r][m.c]]_vars

\* C29 witness: in the game in progress a wrong digit was placed and its
\* revert has not run; that placement and the one before it have both been
\* undone, and the board is the one before the earlier of the two.
C29_Witness ==
  /\ Game.difficulty = "easy"
  /\ Game.mistakes = 1
  /\ timeouts # {}
  /\ Len(Game.history) = Len(FilledOrder) - 1
  /\ Game.board = FilledUpTo(Len(FilledOrder) - 1)

====
